---- MODULE Spec2Model ----
(***************************************************************************)
(* Model of the milanintel observation ledger (storage.py), of the         *)
(* command-line driver that owns a collection run (cli.py, collectors/)    *)
(* and of the helpers of utils.py.                                         *)
(*                                                                         *)
(* Spec          : the ledger driven by an arbitrary caller of the Storage *)
(*                 API.                                                    *)
(* FailureSpec   : the write operations on a store that can fail.          *)
(* QuerySpec     : a caller that writes to the ledger and reads it back.   *)
(* CliSpec       : the ledger driven by successive executions of `run`.    *)
(* PageSpec      : WebCollector._collect_page on one page.                 *)
(* RetrySpec     : utils.retry_with_backoff.                               *)
(* NormalizeSpec : utils.normalize_html on a document with and without     *)
(*                 tracking parameters.                                    *)
(***************************************************************************)
EXTENDS Integers, Sequences, FiniteSets

(***************************************************************************)
(* Bounds of the model.                                                    *)
(***************************************************************************)
MaxRuns == 2        \* runs an API caller creates
MaxObs == 2         \* rows of the observations table
MaxTime == 1        \* last value of the clock
MaxItems == 1       \* items a collector visits in one run
MaxProcesses == 1   \* executions of the `run` command
MaxAttempts == 3    \* largest max_attempts given to retry_with_backoff
MaxParams == 1      \* query parameters of a URL before tracking ones are added
MaxQuery == 3       \* query parameters of a URL given to clean_url
MaxParts == 3       \* parts given to make_entity_key

(***************************************************************************)
(* Python None / SQL NULL.  A text column holds a string or None, an       *)
(* integer column or an Optional[int]/Optional[datetime] attribute holds   *)
(* a natural number or NoneInt, a stored ISO timestamp is a sequence and   *)
(* its NULL is NullText.                                                   *)
(***************************************************************************)
None == "None"
NoneInt == 0 - 1
NullText == << >>

\* models.py RunStatus
STARTED == "started"
RUNNING == "running"
COMPLETED == "completed"
FAILED == "failed"
PARTIAL == "partial"
RunStatus == {STARTED, RUNNING, COMPLETED, FAILED, PARTIAL}

\* models.py SourceType
WEB == "web"
JOB == "job"
AD_GOOGLE == "ad_google"
AD_META == "ad_meta"
EMAIL == "email"

(***************************************************************************)
(* datetime.isoformat() and datetime.fromisoformat().  A datetime is a     *)
(* count of half seconds: isoformat() renders the whole seconds and adds   *)
(* the fractional part only when it is not zero, so the text of 2 is <<1>> *)
(* and the text of 3 is <<1, 1>>.                                          *)
(***************************************************************************)
IsoFormat(dt) ==
    IF dt % 2 = 0 THEN << dt \div 2 >> ELSE << dt \div 2, dt % 2 >>

FromIsoFormat(text) ==
    IF Len(text) = 1 THEN 2 * text[1] ELSE 2 * text[1] + text[2]

\* `x.isoformat() if x else None` (storage.py:161, storage.py:194)
IsoOrNull(dt) == IF dt = NoneInt THEN NullText ELSE IsoFormat(dt)

\* SQLite's comparison of two TEXT values (BINARY collation): the first
\* differing position decides, a proper prefix sorts first.
RECURSIVE TextLess(_, _)
TextLess(a, b) ==
    IF b = << >> THEN FALSE
    ELSE IF a = << >> THEN TRUE
    ELSE IF Head(a) # Head(b) THEN Head(a) < Head(b)
    ELSE TextLess(Tail(a), Tail(b))

VARIABLES
    runs,                \* table runs, in rowid order
    observations,        \* table observations, in rowid order
    now,                 \* the clock read by datetime.utcnow()
    ret,                 \* the last Storage call and what it returned
    pc,                  \* position of the `run` command
    run_obj,             \* cli.run: run_obj
    enabled_collectors,  \* cli.run: enabled_collectors
    total_observations,  \* cli.run: total_observations
    total_errors,        \* cli.run: total_errors
    results,             \* the running collector's results dict
    visited,             \* items the running collector has visited
    max_attempts,        \* retry_with_backoff: max_attempts
    initial_backoff,     \* retry_with_backoff: initial_backoff
    max_backoff,         \* retry_with_backoff: max_backoff
    exponential_base,    \* retry_with_backoff: exponential_base
    attempt,             \* retry_with_backoff: attempt
    backoff,             \* retry_with_backoff: backoff
    last_exception,      \* retry_with_backoff: last_exception
    retry_pc,            \* position of retry_with_backoff
    trace,               \* calls of func and of time.sleep, in order
    outcome,             \* what retry_with_backoff returned or raised
    html,                \* normalize_html: a document
    tracked,             \* the same document with a tracking parameter added
    given_url,           \* clean_url: url
    given_parts,         \* make_entity_key: parts
    writers,             \* two concurrent calls of create_observation
    both_write,          \* the observation both are called with
    lock                 \* the connection holding SQLite's write lock, or 0

\* The parameters and locals of retry_with_backoff and what it did.
retryVars == << max_attempts, initial_backoff, max_backoff, exponential_base,
                attempt, backoff, last_exception, retry_pc, trace, outcome >>

\* The state of the functions of utils.py.
\* The argument of normalize_html.
docVars == << html, tracked >>

\* The arguments of clean_url and of make_entity_key.
argVars == << given_url, given_parts >>

\* Two connections writing at the same time.
connVars == << writers, both_write, lock >>

utilVars == << retryVars, docVars, argVars, connVars >>

vars == << runs, observations, now, ret, pc, run_obj, enabled_collectors,
           total_observations, total_errors, results, visited, utilVars >>

cliVars == << pc, run_obj, enabled_collectors, total_observations,
              total_errors, results, visited >>

(***************************************************************************)
(* The schema (Storage.init_db) and the connection (get_connection).       *)
(***************************************************************************)

\* get_connection never issues PRAGMA foreign_keys = ON, so SQLite keeps its
\* default and the FOREIGN KEY clause of observations.run_id is not enforced.
ForeignKeysEnabled == FALSE

\* get_connection as it would be with the commit moved into the finally
\* clause: the statements of the block are committed whatever happened.
get_connection_commit_in_finally(stored, written, raised) ==
    [ stored |-> written, raised |-> raised, closed |-> TRUE ]

\* get_connection around a with block: `stored` is the database before,
\* `written` the database as the statements of the block left it inside the
\* open transaction, `raised` whether the block or conn.commit() raised.
\* Without an exception the transaction is committed; with one it is rolled
\* back and the exception raised again; finally closes the connection.
get_connection(stored, written, raised) ==
    [ stored |-> IF raised THEN stored ELSE written,
      raised |-> raised,
      closed |-> TRUE ]

\* INTEGER PRIMARY KEY AUTOINCREMENT: one more than the largest rowid.
RECURSIVE MaxId(_)
MaxId(table) ==
    IF table = << >> THEN 0
    ELSE LET m == MaxId(Tail(table))
         IN IF Head(table).id > m THEN Head(table).id ELSE m

NextId(table) == MaxId(table) + 1

\* NOT NULL columns of observations: run_id, source, entity_key,
\* observed_at_utc.
NotNullViolation(o) ==
    \/ o.run_id = NoneInt
    \/ o.source = None
    \/ o.entity_key = None
    \/ o.observed_at_utc = NoneInt

\* idx_observations_dedup, UNIQUE (entity_key, content_hash, run_id): SQLite
\* treats NULLs as distinct, so a row with a NULL content_hash never conflicts.
UniqueViolation(table, o) ==
    \E i \in 1..Len(table) :
        /\ table[i].entity_key = o.entity_key
        /\ table[i].content_hash # None
        /\ o.content_hash # None
        /\ table[i].content_hash = o.content_hash
        /\ table[i].run_id = o.run_id

\* FOREIGN KEY (run_id) REFERENCES runs (id), when enforced.
ForeignKeyViolation(runsTable, o) ==
    /\ ForeignKeysEnabled
    /\ o.run_id # NoneInt
    /\ \A j \in 1..Len(runsTable) : runsTable[j].id # o.run_id

\* The INSERT of create_observation raises sqlite3.IntegrityError.
IntegrityError(table, runsTable, o) ==
    \/ NotNullViolation(o)
    \/ UniqueViolation(table, o)
    \/ ForeignKeyViolation(runsTable, o)

\* The row the INSERT of create_observation writes.
ObservationRow(o, id) ==
    [ id |-> id,
      run_id |-> o.run_id,
      source |-> o.source,
      entity_key |-> o.entity_key,
      observed_at_utc |-> IsoOrNull(o.observed_at_utc),
      content_hash |-> o.content_hash,
      status |-> o.status,
      error_message |-> o.error_message ]

InsertObservation(table, o) == Append(table, ObservationRow(o, NextId(table)))

\* SELECT id FROM observations WHERE entity_key = ? AND content_hash = ?
\* AND run_id = ?  (a comparison with NULL is never true)
SelectDuplicateIds(table, o) ==
    { table[i].id : i \in
        { j \in 1..Len(table) :
            /\ o.entity_key # None /\ table[j].entity_key = o.entity_key
            /\ o.content_hash # None /\ table[j].content_hash = o.content_hash
            /\ o.run_id # NoneInt /\ table[j].run_id = o.run_id } }

\* create_observation as it would be with INSERT OR REPLACE: the row in
\* conflict is deleted and the new one inserted.
create_observation_replace(table, runsTable, o) ==
    IF NotNullViolation(o) \/ ForeignKeyViolation(runsTable, o)
    THEN [ table |-> table, id |-> o.id ]
    ELSE LET kept == SelectSeq(table, LAMBDA row :
                         ~ UniqueViolation(<< row >>, o))
         IN [ table |-> Append(kept, ObservationRow(o, NextId(table))),
              id |-> NextId(table) ]

\* Storage.create_observation without a storage failure: the table afterwards
\* and the id left in the observation that is returned.
create_observation(table, runsTable, o) ==
    IF IntegrityError(table, runsTable, o)
    THEN LET ids == SelectDuplicateIds(table, o)
         IN [ table |-> table,
              id |-> IF ids # {} THEN CHOOSE x \in ids : \A y \in ids : x <= y
                     ELSE o.id ]
    ELSE [ table |-> InsertObservation(table, o), id |-> NextId(table) ]

\* The row create_run would write if it read datetime.now() in a time zone
\* ahead of UTC while cli.run reads datetime.utcnow().
RunRow_local_clock(id, started) ==
    [ id |-> id,
      started_at_utc |-> IsoFormat(started + 1),
      finished_at_utc |-> NullText,
      status |-> STARTED ]

\* The row the INSERT of create_run writes.
RunRow(id, started) ==
    [ id |-> id,
      started_at_utc |-> IsoFormat(started),
      finished_at_utc |-> NullText,
      status |-> STARTED ]

\* create_run as it would be if the id were the number of the row in a table
\* that is emptied between processes: always 1.
create_run_first_id(runsTable, started) ==
    Append(runsTable, RunRow(1, started))

\* Storage.create_run: INSERT INTO runs (started_at_utc, status, notes).
create_run(runsTable, started) ==
    Append(runsTable, RunRow(NextId(runsTable), started))

\* update_run as it would be if the UPDATE left finished_at_utc out.
update_run_status_only(runsTable, run) ==
    [ j \in 1..Len(runsTable) |->
        IF runsTable[j].id = run.id
        THEN [ runsTable[j] EXCEPT !.status = run.status ]
        ELSE runsTable[j] ]

\* Storage.update_run: UPDATE runs SET finished_at_utc, status WHERE id = ?.
update_run(runsTable, run) ==
    [ j \in 1..Len(runsTable) |->
        IF runsTable[j].id = run.id
        THEN [ runsTable[j] EXCEPT !.finished_at_utc = IsoOrNull(run.finished_at_utc),
                                   !.status = run.status ]
        ELSE runsTable[j] ]

(***************************************************************************)
(* Queries.                                                                *)
(***************************************************************************)

\* The same statement with ORDER BY observed_at_utc ASC: the oldest rows.
OldestObservationRows(table, entity_key, source) ==
    LET match == { i \in 1..Len(table) :
                     /\ table[i].entity_key = entity_key
                     /\ (source = None \/ table[i].source = source) }
    IN { table[i] : i \in
           { j \in match :
               \A k \in match :
                   ~ TextLess(table[k].observed_at_utc, table[j].observed_at_utc) } }

\* SELECT * FROM observations WHERE entity_key = ? [AND source = ?]
\* ORDER BY observed_at_utc DESC LIMIT 1: the rows the statement may return.
\* SQL leaves the order of rows with equal observed_at_utc open.
LastObservationRows(table, entity_key, source) ==
    LET match == { i \in 1..Len(table) :
                     /\ table[i].entity_key = entity_key
                     /\ (source = None \/ table[i].source = source) }
    IN { table[i] : i \in
           { j \in match :
               \A k \in match :
                   ~ TextLess(table[j].observed_at_utc, table[k].observed_at_utc) } }

\* Storage._row_to_observation
RowToObservation(row) ==
    [ row EXCEPT !.observed_at_utc = FromIsoFormat(row.observed_at_utc) ]

\* Storage.get_last_observation: the values it may return, << >> for None
\* and << observation >> for an observation.
get_last_observation(table, entity_key, source) ==
    IF LastObservationRows(table, entity_key, source) = {}
    THEN { << >> }
    ELSE { << RowToObservation(row) >> :
             row \in LastObservationRows(table, entity_key, source) }

\* get_run_observations as it would be without ORDER BY: the rows in rowid
\* order.
get_run_observations_unordered(table, run_id) ==
    { SelectSeq([ i \in 1..Len(table) |-> RowToObservation(table[i]) ],
                LAMBDA o : o.run_id = run_id) }

\* Storage.get_run_observations: SELECT * FROM observations WHERE run_id = ?
\* ORDER BY observed_at_utc, each row through _row_to_observation.  The lists
\* it may return: SQL leaves the order of rows with equal observed_at_utc open.
get_run_observations(table, run_id) ==
    LET match == { i \in 1..Len(table) : table[i].run_id = run_id }
        n == Cardinality(match)
        orders == { f \in [1..n -> match] :
                      /\ \A a, b \in 1..n : a # b => f[a] # f[b]
                      /\ \A a \in 1..(n - 1) :
                            ~ TextLess(table[f[a + 1]].observed_at_utc,
                                       table[f[a]].observed_at_utc) }
    IN { [ a \in 1..n |-> RowToObservation(table[f[a]]) ] : f \in orders }

\* get_run_stats as it would be without WHERE run_id = ?: the counts over the
\* observations of all runs.
get_run_stats_all_runs(table, run_id) ==
    LET match == 1..Len(table)
    IN [ total_observations |-> Cardinality(match),
         successful |-> Cardinality({ i \in match : table[i].status = "success" }),
         errors |-> Cardinality({ i \in match : table[i].status = "error" }),
         sources |-> Cardinality({ table[i].source : i \in match } \ { None }) ]

\* Storage.get_run_stats: COUNT(*), COUNT(CASE WHEN status = 'success' ...),
\* COUNT(CASE WHEN status = 'error' ...), COUNT(DISTINCT source) over the rows
\* WHERE run_id = ?.  COUNT(DISTINCT x) leaves NULLs out.
get_run_stats(table, run_id) ==
    LET match == { i \in 1..Len(table) : table[i].run_id = run_id }
    IN [ total_observations |-> Cardinality(match),
         successful |-> Cardinality({ i \in match : table[i].status = "success" }),
         errors |-> Cardinality({ i \in match : table[i].status = "error" }),
         sources |-> Cardinality({ table[i].source : i \in match } \ { None }) ]

\* check_for_changes as it would be if a last observation without a
\* content_hash were taken as nothing to compare with.
check_for_changes_skip_missing(last_obs, current_hash) ==
    IF last_obs = << >> THEN TRUE
    ELSE /\ last_obs[1].content_hash # None
         /\ last_obs[1].content_hash # current_hash

\* Storage.check_for_changes, given what get_last_observation(entity_key)
\* returned.
check_for_changes(last_obs, current_hash) ==
    IF last_obs = << >> THEN TRUE ELSE last_obs[1].content_hash # current_hash

(***************************************************************************)
(* Inputs of the Storage API.                                              *)
(***************************************************************************)
Keys == {"e1", "e2"}
Hashes == {"a", "b"}
RunIds == {1, 2}
ObservedAts == {0, 1}

\* models.py Observation, as a caller builds it before create_observation:
\* the source follows the entity, and a failed collection has status error,
\* an error_message and no content_hash, as in the collectors.
Observation(run_id, entity_key, observed_at_utc, content_hash) ==
    [ id |-> NoneInt,
      run_id |-> run_id,
      source |-> IF entity_key = "e2" THEN JOB ELSE WEB,
      entity_key |-> entity_key,
      observed_at_utc |-> observed_at_utc,
      content_hash |-> content_hash,
      status |-> IF content_hash = None THEN "error" ELSE "success",
      error_message |-> IF content_hash = None THEN "msg" ELSE None ]

\* Fully populated observations of entity e1 (any run, time and content),
\* one observation of a second entity, and observations that lack one of
\* the attributes the schema requires.
ObservationInputs ==
    { Observation(r, "e1", t, h) :
        r \in RunIds, t \in ObservedAts, h \in Hashes \cup {None} }
    \cup { Observation(1, "e2", 0, "a") }
    \cup { Observation(NoneInt, "e1", 0, "a"),
           Observation(1, None, 0, "a"),
           Observation(1, "e1", NoneInt, "a"),
           [ Observation(1, "e1", 0, "a") EXCEPT !.source = None ] }

\* models.py Run, as a caller hands it to update_run at the end of a run.
RunInputs ==
    { [ id |-> i, finished_at_utc |-> now, status |-> COMPLETED ] :
        i \in 1..MaxRuns }

(***************************************************************************)
(* The state after Storage(db_path).init_db() on a new database.           *)
(***************************************************************************)
NoRun == [ id |-> NoneInt, started_at_utc |-> NoneInt,
           finished_at_utc |-> NoneInt, status |-> STARTED ]

NoResults == [ observations |-> 0, errors |-> 0 ]

\* The ledger and the run command before anything was done.
LedgerInit ==
    /\ runs = << >>
    /\ observations = << >>
    /\ now = 0
    /\ ret = [ op |-> "init_db" ]
    /\ pc = "idle"
    /\ run_obj = NoRun
    /\ enabled_collectors = {}
    /\ total_observations = 0
    /\ total_errors = 0
    /\ results = NoResults
    /\ visited = 0

\* retry_with_backoff entered with the given arguments (utils.py:187-189);
\* Init gives it the defaults of its signature.
RetryEntered(attempts, initial, maximum, base) ==
    /\ max_attempts = attempts
    /\ initial_backoff = initial
    /\ max_backoff = maximum
    /\ exponential_base = base
    /\ attempt = 0
    /\ backoff = initial
    /\ last_exception = NoneInt
    /\ retry_pc = "loop"
    /\ trace = << >>
    /\ outcome = [ kind |-> "running" ]

\* No document is at hand.
NoDocument ==
    /\ html = << >>
    /\ tracked = << >>

\* No URL and no parts are at hand.
NoArguments ==
    /\ given_url = [ path |-> "", query |-> << >>, fragment |-> "" ]
    /\ given_parts = << >>

\* No concurrent writers: both are idle and the database is unlocked.
NoWriters ==
    /\ writers = [ w \in 1..2 |->
                     [ pc |-> "idle", id |-> NoneInt, raised |-> FALSE ] ]
    /\ both_write = [ id |-> NoneInt, run_id |-> NoneInt, source |-> None,
                         entity_key |-> None, observed_at_utc |-> NoneInt,
                      content_hash |-> None, status |-> None,
                      error_message |-> None ]
    /\ lock = 0

Init ==
    /\ LedgerInit
    /\ RetryEntered(3, 2, 30, 2)
    /\ NoDocument
    /\ NoArguments
    /\ NoWriters

(***************************************************************************)
(* Calls of the Storage API by an arbitrary caller.                        *)
(***************************************************************************)

\* datetime.utcnow() advances: between two processes, and between the end
\* of the collection and the final update of the run.
Tick ==
    /\ now < MaxTime
    /\ pc \in { "idle", "done", "exit", "finalize" }
    /\ now' = now + 1
    /\ ret' = [ op |-> "tick" ]
    /\ UNCHANGED << runs, observations, cliVars, utilVars >>

\* Storage.init_db on an initialised database: every statement is
\* CREATE ... IF NOT EXISTS.
InitDb ==
    /\ ret' = [ op |-> "init_db" ]
    /\ UNCHANGED << runs, observations, now, cliVars, utilVars >>

CreateRun ==
    /\ Len(runs) < MaxRuns
    /\ runs' = create_run(runs, now)
    /\ ret' = [ op |-> "create_run", id |-> NextId(runs), raised |-> FALSE ]
    /\ UNCHANGED << observations, now, cliVars, utilVars >>

UpdateRun(run) ==
    /\ runs' = update_run(runs, run)
    /\ ret' = [ op |-> "update_run", id |-> run.id, raised |-> FALSE ]
    /\ UNCHANGED << observations, now, cliVars, utilVars >>

CreateObservation(o) ==
    /\ Len(create_observation(observations, runs, o).table) <= MaxObs
    /\ observations' = create_observation(observations, runs, o).table
    /\ ret' = [ op |-> "create_observation", arg |-> o,
                id |-> create_observation(observations, runs, o).id,
                raised |-> FALSE ]
    /\ UNCHANGED << runs, now, cliVars, utilVars >>

\* Where a storage error can strike a write operation: sqlite3.connect raises
\* (no connection, nothing written), the statement raises (nothing written),
\* or conn.commit() raises after the statement was executed.
FailurePoints == { "connect", "execute", "commit" }

\* The observations whose create_observation a storage error interrupts.
InterruptedInputs == { Observation(r, "e1", 0, "a") : r \in RunIds }

\* The databases the statements of a write operation can leave inside the
\* transaction, before the commit, over the arguments of the operation.
Written(op) ==
    CASE op = "create_run" ->
           { [ runs |-> create_run(runs, now), observations |-> observations ] }
      [] op = "update_run" ->
           { [ runs |-> update_run(runs, run), observations |-> observations ] :
               run \in RunInputs }
      [] OTHER ->
           { [ runs |-> runs,
               observations |->
                   create_observation(observations, runs, o).table ] :
               o \in InterruptedInputs }

\* A storage error inside create_run, update_run or create_observation.
StorageFailure(op) ==
    LET stored == [ runs |-> runs, observations |-> observations ]
    IN \E point \in FailurePoints :
         \E written \in IF point = "commit" THEN Written(op) ELSE { stored } :
           LET after == get_connection(stored, written, TRUE)
           IN /\ runs' = after.stored.runs
              /\ observations' = after.stored.observations
              /\ ret' = [ op |-> op, point |-> point, raised |-> after.raised,
                          closed |-> after.closed ]
              /\ UNCHANGED << now, cliVars, utilVars >>

\* check_for_changes as it would be if it recorded the hash it was asked
\* about as a new observation of the entity.
CheckForChanges_recording(entity_key, current_hash) ==
    /\ runs # << >>
    /\ Len(observations) < MaxObs
    /\ observations' =
          InsertObservation(observations,
                            Observation(runs[1].id, entity_key, now,
                                        current_hash))
    /\ \E last_obs \in get_last_observation(observations, entity_key, None) :
          ret' = [ op |-> "check_for_changes", entity_key |-> entity_key,
                   current_hash |-> current_hash,
                   changed |-> check_for_changes(last_obs, current_hash) ]
    /\ UNCHANGED << runs, now, cliVars, utilVars >>

CheckForChanges(entity_key, current_hash) ==
    /\ \E last_obs \in get_last_observation(observations, entity_key, None) :
          ret' = [ op |-> "check_for_changes", entity_key |-> entity_key,
                   current_hash |-> current_hash,
                   changed |-> check_for_changes(last_obs, current_hash) ]
    /\ UNCHANGED << runs, observations, now, cliVars, utilVars >>

Next ==
    \/ InitDb
    \/ CreateRun
    \/ \E run \in RunInputs : UpdateRun(run)
    \/ \E o \in ObservationInputs : CreateObservation(o)
    \/ \E k \in Keys, h \in Hashes \cup {None} : CheckForChanges(k, h)

Spec == Init /\ [][Next]_vars

(***************************************************************************)
(* A caller that writes to a ledger whose store can fail.                  *)
(***************************************************************************)
FailureNext ==
    \/ CreateRun
    \/ \E run \in RunInputs : UpdateRun(run)
    \/ \E o \in ObservationInputs : CreateObservation(o)
    \/ \E op \in {"create_run", "update_run", "create_observation"} :
          StorageFailure(op)

FailureSpec == Init /\ [][FailureNext]_vars

(***************************************************************************)
(* A caller that writes to the ledger and reads it back.                   *)
(***************************************************************************)

\* The source argument of get_last_observation: None applies no filter.
SourceFilters == { None, WEB, JOB }

GetLastObservation(entity_key, source) ==
    /\ \E last_obs \in get_last_observation(observations, entity_key, source) :
          ret' = [ op |-> "get_last_observation", entity_key |-> entity_key,
                   source |-> source, result |-> last_obs ]
    /\ UNCHANGED << runs, observations, now, cliVars, utilVars >>

GetRunObservations(run_id) ==
    /\ \E result \in get_run_observations(observations, run_id) :
          ret' = [ op |-> "get_run_observations", run_id |-> run_id,
                   result |-> result ]
    /\ UNCHANGED << runs, observations, now, cliVars, utilVars >>

GetRunStats(run_id) ==
    /\ ret' = [ op |-> "get_run_stats", run_id |-> run_id,
                stats |-> get_run_stats(observations, run_id) ]
    /\ UNCHANGED << runs, observations, now, cliVars, utilVars >>

QueryNext ==
    \/ CreateRun
    \/ \E o \in ObservationInputs : CreateObservation(o)
    \/ \E k \in Keys, s \in SourceFilters : GetLastObservation(k, s)
    \/ \E r \in RunIds : GetRunObservations(r)
    \/ \E r \in RunIds : GetRunStats(r)

QuerySpec == Init /\ [][QueryNext]_vars

\* A caller of the four queries, between writes.
ReadNext ==
    \/ CreateRun
    \/ \E o \in ObservationInputs : CreateObservation(o)
    \/ \E k \in Keys, h \in Hashes \cup {None} : CheckForChanges(k, h)
    \/ \E k \in Keys, s \in SourceFilters : GetLastObservation(k, s)
    \/ \E r \in RunIds : GetRunObservations(r)
    \/ \E r \in RunIds : GetRunStats(r)

ReadSpec == Init /\ [][ReadNext]_vars

(***************************************************************************)
(* WebCollector._collect_page on one page.                                 *)
(***************************************************************************)

\* What a page does to _collect_page: page.goto answers, is redirected or
\* times out; normalize_html returns or raises on the content; `content` is
\* the hash of the normalized content; saving the artifacts and the rest of
\* the try block succeed or raise.
PageInputs ==
    [ goto : { "ok", "redirect", "timeout" },
      normalize : { "ok", "raises" },
      content : Hashes,
      artifacts : { "ok", "raises" } ]

\* _collect_page as it would be if a failure after a redirect left the
\* status redirect and only set the message.
collect_page_keeps_redirect(run_id, entity_key, at, page) ==
    LET hashed == page.goto # "timeout" /\ page.normalize = "ok"
        failed == \/ page.goto = "timeout"
                  \/ page.normalize = "raises"
                  \/ page.artifacts = "raises"
    IN [ id |-> NoneInt,
         run_id |-> run_id,
         source |-> WEB,
         entity_key |-> entity_key,
         observed_at_utc |-> at,
         content_hash |-> IF hashed THEN page.content ELSE None,
         status |-> IF page.goto = "redirect" THEN "redirect"
                    ELSE IF failed THEN "error"
                    ELSE "success",
         error_message |-> IF failed THEN "msg" ELSE None ]

\* web.py:123-204: the observation _collect_page hands to
\* create_observation.  Every exception of the try block, the one of
\* normalize_html included, ends in an except clause that sets status error;
\* content_hash is set only once normalize_html and compute_hash returned.
collect_page(run_id, entity_key, at, page) ==
    LET hashed == page.goto # "timeout" /\ page.normalize = "ok"
        failed == \/ page.goto = "timeout"
                  \/ page.normalize = "raises"
                  \/ page.artifacts = "raises"
    IN [ id |-> NoneInt,
         run_id |-> run_id,
         source |-> WEB,
         entity_key |-> entity_key,
         observed_at_utc |-> at,
         content_hash |-> IF hashed THEN page.content ELSE None,
         status |-> IF failed THEN "error"
                    ELSE IF page.goto = "redirect" THEN "redirect"
                    ELSE "success",
         error_message |-> IF failed THEN "msg" ELSE None ]

\* _collect_page for a collector of a stored run: the observation is stored
\* with create_observation and returned.
CollectPage(run_id, page) ==
    LET o == collect_page(run_id, "e1", now, page)
        stored == create_observation(observations, runs, o)
    IN /\ Len(stored.table) <= MaxObs
       /\ observations' = stored.table
       /\ ret' = [ op |-> "_collect_page", page |-> page,
                   observation |-> [ o EXCEPT !.id = stored.id ] ]
       /\ UNCHANGED << runs, now, cliVars, utilVars >>

PageNext ==
    \/ CreateRun
    \/ \E j \in 1..Len(runs), page \in PageInputs :
          CollectPage(runs[j].id, page)

PageSpec == Init /\ [][PageNext]_vars

(***************************************************************************)
(* utils.retry_with_backoff.  A failure of func is named by the number of  *)
(* the invocation that raised it, a result by the number of the invocation *)
(* that returned it.  Delays are whole seconds.                            *)
(***************************************************************************)
ledgerVars == << runs, observations, now, ret, cliVars >>

AttemptInputs == (0 - 1)..MaxAttempts
BackoffInputs == { 1, 2, 5 }
MaxBackoffInputs == { 2, 4 }
BaseInputs == { 1, 2, 3 }

RetryInit ==
    /\ LedgerInit
    /\ \E a \in AttemptInputs, i \in BackoffInputs,
          m \in MaxBackoffInputs, b \in BaseInputs : RetryEntered(a, i, m, b)
    /\ NoDocument
    /\ NoArguments
    /\ NoWriters

Min(a, b) == IF a <= b THEN a ELSE b

\* The test of line 198 as it would be with > in place of >=.
Exhausted_off_by_one(attempts, maximum) == attempts > maximum

\* utils.py:198  if attempt >= max_attempts
Exhausted(attempts, maximum) == attempts >= maximum

\* utils.py:206  backoff = min(backoff * exponential_base, max_backoff)
NextBackoff(delay, base, maximum) == Min(delay * base, maximum)

\* The invocations of func so far.
Calls == { i \in 1..Len(trace) : trace[i].ev = "call" }

Call(result) == [ ev |-> "call", outcome |-> result, delay |-> 0 ]

Sleep(delay) == [ ev |-> "sleep", outcome |-> "slept", delay |-> delay ]

\* utils.py:192-193: func() returns and retry_with_backoff returns its value.
FuncReturns ==
    /\ retry_pc = "loop"
    /\ attempt < max_attempts
    /\ trace' = Append(trace, Call("returned"))
    /\ outcome' = [ kind |-> "returned", call |-> Cardinality(Calls) + 1 ]
    /\ retry_pc' = "done"
    /\ UNCHANGED << ledgerVars, docVars, argVars, connVars, max_attempts,
                    initial_backoff, max_backoff,
                    exponential_base, attempt, backoff, last_exception >>

\* func() raising an exception that is not one of `exceptions`, as it would
\* be if the except clause caught it and went on to the next attempt.
FuncRaisesOther_retried ==
    /\ retry_pc = "loop"
    /\ attempt < max_attempts
    /\ attempt' = attempt + 1
    /\ trace' = trace \o << Call("raised_other"), Sleep(backoff) >>
    /\ UNCHANGED << ledgerVars, docVars, argVars, connVars, max_attempts,
                    initial_backoff, max_backoff, exponential_base, backoff,
                    last_exception, outcome, retry_pc >>

\* func() raises an exception that is not one of `exceptions`: it leaves
\* retry_with_backoff at once.
FuncRaisesOther ==
    /\ retry_pc = "loop"
    /\ attempt < max_attempts
    /\ trace' = Append(trace, Call("raised_other"))
    /\ outcome' = [ kind |-> "raised", call |-> Cardinality(Calls) + 1 ]
    /\ retry_pc' = "done"
    /\ UNCHANGED << ledgerVars, docVars, argVars, connVars, max_attempts,
                    initial_backoff, max_backoff,
                    exponential_base, attempt, backoff, last_exception >>

\* utils.py:194-206: func() raises one of `exceptions`.
FuncRaises ==
    /\ retry_pc = "loop"
    /\ attempt < max_attempts
    /\ attempt' = attempt + 1
    /\ last_exception' = Cardinality(Calls) + 1
    /\ IF Exhausted(attempt', max_attempts)
       THEN /\ trace' = Append(trace, Call("raised"))
            /\ outcome' = [ kind |-> "raised", call |-> last_exception' ]
            /\ retry_pc' = "done"
            /\ backoff' = backoff
       ELSE /\ trace' = trace \o << Call("raised"), Sleep(backoff) >>
            /\ backoff' = NextBackoff(backoff, exponential_base, max_backoff)
            /\ UNCHANGED << outcome, retry_pc >>
    /\ UNCHANGED << ledgerVars, docVars, argVars, connVars, max_attempts,
                    initial_backoff, max_backoff,
                    exponential_base >>

\* utils.py:208-211: the loop ends without a return or a raise.
RetryLoopEnds ==
    /\ retry_pc = "loop"
    /\ ~ (attempt < max_attempts)
    /\ outcome' = IF last_exception # NoneInt
                  THEN [ kind |-> "raised", call |-> last_exception ]
                  ELSE [ kind |-> "runtime_error", call |-> 0 ]
    /\ retry_pc' = "done"
    /\ UNCHANGED << ledgerVars, docVars, argVars, connVars, max_attempts,
                    initial_backoff, max_backoff,
                    exponential_base, attempt, backoff, last_exception, trace >>

RetryNext ==
    \/ FuncReturns
    \/ FuncRaisesOther
    \/ FuncRaises
    \/ RetryLoopEnds

RetrySpec == RetryInit /\ [][RetryNext]_vars

(***************************************************************************)
(* utils.normalize_html and utils.clean_url.  A document is the sequence   *)
(* of its elements, an element a tag with one attribute, the value of a    *)
(* link-bearing attribute a URL: the text before the query, the query as   *)
(* a sequence of key/value pairs, and the fragment.                        *)
(***************************************************************************)

\* clean_url: tracking_params (utils.py:106-110)
tracking_params ==
    { "utm_source", "utm_medium", "utm_campaign", "utm_term", "utm_content",
      "gclid", "fbclid", "msclkid", "_ga", "mc_cid", "mc_eid",
      "sessionid", "sid", "timestamp", "_t", "_hsenc", "_hsmi" }

\* normalize_html: dynamic_attrs (utils.py:65-72)
dynamic_attrs ==
    { "data-timestamp", "data-session", "data-visitor-id", "data-analytics",
      "data-gtm", "data-ga" }

\* str.lower() on the parameter names of the model.
Lower(k) == IF k = "UTM_SOURCE" THEN "utm_source" ELSE k

\* urlparse raises ValueError on a URL with an unclosed bracket in its host.
Unparsable == { "http://[x/p" }

\* The pairs grouped by key, the keys in the order they first occur: the
\* dict parse_qs builds, as urlencode(doseq=True) writes it back.
RECURSIVE GroupByKey(_)
GroupByKey(query) ==
    IF query = << >> THEN << >>
    ELSE SelectSeq(query, LAMBDA p : p.k = Head(query).k)
         \o GroupByKey(SelectSeq(Tail(query), LAMBDA p : p.k # Head(query).k))

\* urllib.parse.parse_qs: parameters with a blank value are left out.
parse_qs(query) == GroupByKey(SelectSeq(query, LAMBDA p : p.v # ""))

\* utils.clean_url: the parameters whose lowercased name is in
\* tracking_params are dropped and the fragment is removed; when urlparse
\* raises, the URL is returned as it is.
clean_url(url) ==
    IF url.path \in Unparsable THEN url
    ELSE [ url EXCEPT
             !.query = SelectSeq(parse_qs(url.query), LAMBDA p :
                           Lower(p.k) \notin tracking_params),
             !.fragment = "" ]

\* normalize_html on one element that was not decomposed: a dynamic
\* attribute is deleted, the href of a and link and the src of img and
\* script go through clean_url, anything else is left as it is.
NormalizeElement(e) ==
    IF e.attr \in dynamic_attrs
    THEN [ tag |-> e.tag, attr |-> None, url |-> None ]
    ELSE IF \/ e.tag \in { "a", "link" } /\ e.attr = "href"
            \/ e.tag \in { "img", "script" } /\ e.attr = "src"
         THEN [ e EXCEPT !.url = clean_url(e.url) ]
         ELSE e

\* utils.normalize_html: script, style and noscript elements are decomposed,
\* the others normalized one by one.
normalize_html(doc) ==
    LET kept == SelectSeq(doc, LAMBDA e :
                    e.tag \notin { "script", "style", "noscript" })
    IN [ i \in 1..Len(kept) |-> NormalizeElement(kept[i]) ]

\* The link-bearing attributes of the documents of the model.
LinkAttributes ==
    { << "a", "href" >>, << "link", "href" >>, << "img", "src" >>,
      << "script", "src" >>, << "iframe", "src" >>, << "form", "action" >> }

\* The query parameters a URL has of its own.
OwnParams == { [ k |-> "q", v |-> "1" ], [ k |-> "q", v |-> "" ] }

Queries ==
    UNION { [ 1..n -> OwnParams ] : n \in 0..MaxParams }

Urls ==
    [ path : { "http://x/p" } \cup Unparsable,
      query : Queries,
      fragment : { "", "top" } ]

\* Documents of one element with a link-bearing attribute.
Documents ==
    { << [ tag |-> a[1], attr |-> a[2], url |-> u ] >> :
        a \in LinkAttributes, u \in Urls }

\* Tracking parameters: utm_* ones, click ids, session and timestamp ones.
TrackingNoise ==
    { "utm_source", "UTM_SOURCE", "utm_id", "gclid", "sessionid", "timestamp" }

\* The document with a tracking parameter added to every URL, before or
\* after the parameters the URL has.
AddTracking(doc, key, front) ==
    [ i \in 1..Len(doc) |->
        [ doc[i] EXCEPT !.url.query =
            IF front THEN << [ k |-> key, v |-> "x" ] >> \o @
            ELSE Append(@, [ k |-> key, v |-> "x" ]) ] ]

NormalizeInit ==
    /\ LedgerInit
    /\ RetryEntered(3, 2, 30, 2)
    /\ NoArguments
    /\ NoWriters
    /\ html \in Documents
    /\ \E key \in TrackingNoise, front \in BOOLEAN :
          tracked = AddTracking(html, key, front)

\* normalize_html is applied to both documents.
NormalizeHtml ==
    /\ ret' = [ op |-> "normalize_html",
                normalized |-> normalize_html(html),
                normalized_tracked |-> normalize_html(tracked) ]
    /\ UNCHANGED << runs, observations, now, cliVars, utilVars >>

NormalizeNext == NormalizeHtml

NormalizeSpec == NormalizeInit /\ [][NormalizeNext]_vars

(***************************************************************************)
(* utils.clean_url on one URL.                                             *)
(***************************************************************************)

\* Query parameters: two ordinary names, one of them with an empty value
\* too, and a tracking name in both spellings.
UrlParams ==
    { [ k |-> "q", v |-> "1" ], [ k |-> "q", v |-> "" ],
      [ k |-> "r", v |-> "2" ],
      [ k |-> "utm_source", v |-> "x" ], [ k |-> "UTM_SOURCE", v |-> "x" ] }

\* URLs that urlparse accepts, with up to MaxQuery query parameters.
UrlInputs ==
    [ path : { "http://x/p" },
      query : UNION { [ 1..n -> UrlParams ] : n \in 0..MaxQuery },
      fragment : { "", "top" } ]

CleanUrlInit ==
    /\ LedgerInit
    /\ RetryEntered(3, 2, 30, 2)
    /\ NoDocument
    /\ given_url \in UrlInputs
    /\ given_parts = << >>
    /\ NoWriters

CleanUrl ==
    /\ ret' = [ op |-> "clean_url", cleaned |-> clean_url(given_url) ]
    /\ UNCHANGED << runs, observations, now, cliVars, utilVars >>

CleanUrlNext == CleanUrl

CleanUrlSpec == CleanUrlInit /\ [][CleanUrlNext]_vars

(***************************************************************************)
(* utils.make_entity_key.                                                  *)
(***************************************************************************)

\* "|".join(texts)
RECURSIVE Join(_, _)
Join(separator, texts) ==
    IF texts = << >> THEN ""
    ELSE IF Len(texts) = 1 THEN Head(texts)
    ELSE Head(texts) \o separator \o Join(separator, Tail(texts))

\* The digest of a text: sha256 is taken as injective, the digest is
\* written as the algorithm and the text it was computed from.
compute_hash(content, algorithm) == algorithm \o ":" \o content

\* make_entity_key with the parts run together, no separator between them.
make_entity_key_no_separator(parts) ==
    compute_hash(Join("", SelectSeq(parts, LAMBDA p : p # "")), "sha256")

\* The parts that are not empty, joined by "|", hashed.
make_entity_key(parts) ==
    compute_hash(Join("|", SelectSeq(parts, LAMBDA p : p # "")), "sha256")

\* The texts a part is drawn from: empty, one character, two characters,
\* and one that holds the separator.
PartInputs == { "", "a", "b", "ab", "a|b" }

PartsInputs == UNION { [ 1..n -> PartInputs ] : n \in 0..MaxParts }

EntityKeyInit ==
    /\ LedgerInit
    /\ RetryEntered(3, 2, 30, 2)
    /\ NoDocument
    /\ given_url = [ path |-> "", query |-> << >>, fragment |-> "" ]
    /\ given_parts \in PartsInputs
    /\ NoWriters

\* The part holds the separator somewhere.
HasSeparator(part) ==
    \E before, after \in { "", "a", "b", "ab" } :
        part = before \o "|" \o after

MakeEntityKey ==
    /\ ret' = [ op |-> "make_entity_key", key |-> make_entity_key(given_parts) ]
    /\ UNCHANGED << runs, observations, now, cliVars, utilVars >>

EntityKeyNext == MakeEntityKey

EntityKeySpec == EntityKeyInit /\ [][EntityKeyNext]_vars

(***************************************************************************)
(* JobsCollector._collect_job on one job detail page.                      *)
(***************************************************************************)

\* What a job detail page gives _collect_job: the fields _parse_job reads
\* from it (an identifier is missing, or empty, or has a value), and where
\* the try block fails, if it does: at page.goto, before the key is made,
\* or when the artifacts are saved, after the key and the hash were set.
JobInputs ==
    [ url : { "u" },
      title : { "T" },
      location : { None, "L" },
      job_id : { None, "", "4" },
      requisition_id : { None, "7" },
      fails : { "no", "goto", "artifacts" } ]

\* Python truth of an optional text: neither None nor empty.
Truthy(text) == text # None /\ text # ""

\* _make_job_key preferring the platform job id to the requisition id.
_make_job_key_job_id_first(job, url) ==
    IF Truthy(job.job_id) THEN "job_" \o job.job_id
    ELSE IF Truthy(job.requisition_id) THEN "req_" \o job.requisition_id
    ELSE make_entity_key(<< job.title,
                            IF Truthy(job.location) THEN job.location ELSE "",
                            url >>)

\* jobs.py:394-405
_make_job_key(job, url) ==
    IF Truthy(job.requisition_id) THEN "req_" \o job.requisition_id
    ELSE IF Truthy(job.job_id) THEN "job_" \o job.job_id
    ELSE make_entity_key(<< job.title,
                            IF Truthy(job.location) THEN job.location ELSE "",
                            url >>)

\* jobs.py:201-255: the observation _collect_job hands to
\* create_observation.  The except clause sets status error, the message
\* and an entity_key made of the URL alone, whatever the try block had set.
collect_job(run_id, at, job) ==
    LET failed == job.fails # "no"
    IN [ id |-> NoneInt,
         run_id |-> run_id,
         source |-> JOB,
         entity_key |-> IF failed THEN make_entity_key(<< job.url >>)
                        ELSE _make_job_key(job, job.url),
         observed_at_utc |-> at,
         content_hash |-> IF job.fails = "goto" THEN None ELSE "a",
         status |-> IF failed THEN "error" ELSE "success",
         error_message |-> IF failed THEN "msg" ELSE None ]

\* _collect_job for a collector of a stored run: the observation is stored
\* with create_observation and returned.
CollectJob(run_id, job) ==
    LET o == collect_job(run_id, now, job)
        stored == create_observation(observations, runs, o)
    IN /\ Len(stored.table) <= MaxObs
       /\ observations' = stored.table
       /\ ret' = [ op |-> "_collect_job", job |-> job,
                   observation |-> [ o EXCEPT !.id = stored.id ] ]
       /\ UNCHANGED << runs, now, cliVars, utilVars >>

JobNext ==
    \/ CreateRun
    \/ \E j \in 1..Len(runs), job \in JobInputs :
          CollectJob(runs[j].id, job)

JobSpec == Init /\ [][JobNext]_vars

(***************************************************************************)
(* Two writers in create_observation at the same time, each on its own     *)
(* connection (get_connection opens one per call).  SQLite lets one        *)
(* connection write at a time: the INSERT takes the write lock, which the  *)
(* commit or rollback at the end of get_connection releases.               *)
(***************************************************************************)

Writers == 1..2

\* What the two writers are called with: an observation of a stored run,
\* with or without a content_hash.
WriterInputs ==
    { Observation(r, k, 0, h) :
        r \in RunIds, k \in Keys, h \in { "a", None } }

\* Both calls are made with the same observation.
BeginWrites(o) ==
    /\ \A w \in Writers : writers[w].pc = "idle"
    /\ \E j \in 1..Len(runs) : runs[j].id = o.run_id
    /\ Len(observations) + 2 <= MaxObs
    /\ writers' = [ w \in Writers |->
                      [ pc |-> "connected", id |-> o.id, raised |-> FALSE ] ]
    /\ both_write' = o
    /\ UNCHANGED << runs, observations, now, ret, cliVars, retryVars, docVars,
                    argVars, lock >>

\* storage.py:182-201: the INSERT.  It waits while the other connection
\* holds the write lock; then it takes the lock and either adds its row to
\* its transaction or raises IntegrityError against what is committed.
WriterInsert(w) ==
    /\ writers[w].pc = "connected"
    /\ lock = 0
    /\ lock' = w
    /\ writers' =
          [ writers EXCEPT ![w] =
              IF IntegrityError(observations, runs, both_write)
              THEN [ @ EXCEPT !.pc = "duplicate" ]
              ELSE [ @ EXCEPT !.pc = "inserted",
                              !.id = NextId(observations) ] ]
    /\ UNCHANGED << runs, observations, now, ret, cliVars, retryVars, docVars,
                    argVars, both_write >>

\* storage.py:33-36, 182: sqlite3.connect is called with its default
\* timeout; an INSERT that has waited that long for the write lock raises
\* sqlite3.OperationalError (database is locked), which the handler of
\* IntegrityError does not catch: get_connection rolls back and re-raises.
WriterLocked(w) ==
    /\ writers[w].pc = "connected"
    /\ lock \notin { 0, w }
    /\ writers' = [ writers EXCEPT ![w] =
                      [ @ EXCEPT !.pc = "done", !.raised = TRUE ] ]
    /\ UNCHANGED << runs, observations, now, ret, cliVars, retryVars, docVars,
                    argVars, both_write, lock >>

\* storage.py:202-213: the SELECT of the IntegrityError handler.
WriterSelect(w) ==
    /\ writers[w].pc = "duplicate"
    /\ LET ids == SelectDuplicateIds(observations, both_write)
       IN writers' =
            [ writers EXCEPT ![w] =
                [ @ EXCEPT !.pc = "selected",
                           !.id = IF ids # {}
                                  THEN CHOOSE x \in ids : \A y \in ids : x <= y
                                  ELSE @ ] ]
    /\ UNCHANGED << runs, observations, now, ret, cliVars, retryVars, docVars,
                    argVars, both_write, lock >>

\* storage.py:40, 215: conn.commit() at the end of the with block, and the
\* return of the observation.
WriterCommit(w) ==
    /\ writers[w].pc \in { "inserted", "selected" }
    /\ observations' = IF writers[w].pc = "inserted"
                       THEN InsertObservation(observations, both_write)
                       ELSE observations
    /\ lock' = 0
    /\ writers' = [ writers EXCEPT ![w] = [ @ EXCEPT !.pc = "done" ] ]
    /\ UNCHANGED << runs, now, ret, cliVars, retryVars, docVars, argVars,
                    both_write >>

WritersNext ==
    \/ CreateRun
    \/ \E o \in WriterInputs : BeginWrites(o)
    \/ \E w \in Writers : WriterInsert(w)
    \/ \E w \in Writers : WriterLocked(w)
    \/ \E w \in Writers : WriterSelect(w)
    \/ \E w \in Writers : WriterCommit(w)

WritersSpec == Init /\ [][WritersNext]_vars

(***************************************************************************)
(* AdsCollector._save_ad, EmailCollector._fetch_email, and the four        *)
(* collectors storing into one database.                                   *)
(***************************************************************************)

\* An ad creative of a platform, and whether save_artifact succeeds.
AdInputs ==
    [ platform : { "google", "meta" },
      creative_id : { "c" },
      artifacts : { "ok", "raises" } ]

\* ads.py:323-350: the observation _save_ad builds.
save_ad(run_id, at, ad) ==
    [ id |-> NoneInt,
      run_id |-> run_id,
      source |-> IF ad.platform = "meta" THEN AD_META ELSE AD_GOOGLE,
      entity_key |-> make_entity_key(<< ad.platform, ad.creative_id, "", "" >>),
      observed_at_utc |-> at,
      content_hash |-> "a",
      status |-> "success",
      error_message |-> None ]

\* ads.py:305-370: _save_ad has no except clause; when save_artifact raises
\* the exception leaves it before create_observation is reached.
SaveAd(run_id, ad) ==
    LET o == save_ad(run_id, now, ad)
        stored == create_observation(observations, runs, o)
    IN /\ IF ad.artifacts = "raises"
          THEN /\ observations' = observations
               /\ ret' = [ op |-> "_save_ad", raised |-> TRUE ]
          ELSE /\ Len(stored.table) <= MaxObs
               /\ observations' = stored.table
               /\ ret' = [ op |-> "_save_ad", raised |-> FALSE,
                           observation |-> [ o EXCEPT !.id = stored.id ] ]
       /\ UNCHANGED << runs, now, cliVars, utilVars >>

\* A message of the inbox: whether it passes the filters, and whether the
\* artifacts can be saved.
EmailInputs ==
    [ from_domain : { "d" },
      subject : { "s" },
      passes : BOOLEAN,
      artifacts : { "ok", "raises" } ]

\* email.py:231-248: the observation _fetch_email builds.
fetch_email(run_id, at, message) ==
    [ id |-> NoneInt,
      run_id |-> run_id,
      source |-> EMAIL,
      entity_key |-> make_entity_key(<< message.from_domain, message.subject,
                                        "" >>),
      observed_at_utc |-> at,
      content_hash |-> "b",
      status |-> "success",
      error_message |-> None ]

\* email.py:198-283: a message that the filters reject is skipped, and an
\* exception of the artifact saving leaves _fetch_email before
\* create_observation is reached.
FetchEmail(run_id, message) ==
    LET o == fetch_email(run_id, now, message)
        stored == create_observation(observations, runs, o)
    IN /\ IF ~ message.passes
          THEN /\ observations' = observations
               /\ ret' = [ op |-> "_fetch_email", raised |-> FALSE,
                           skipped |-> TRUE ]
          ELSE IF message.artifacts = "raises"
          THEN /\ observations' = observations
               /\ ret' = [ op |-> "_fetch_email", raised |-> TRUE,
                           skipped |-> FALSE ]
          ELSE /\ Len(stored.table) <= MaxObs
               /\ observations' = stored.table
               /\ ret' = [ op |-> "_fetch_email", raised |-> FALSE,
                           skipped |-> FALSE,
                           observation |-> [ o EXCEPT !.id = stored.id ] ]
       /\ UNCHANGED << runs, now, cliVars, utilVars >>

\* The pages and jobs the collectors of one configuration meet: one content
\* per page, jobs without identifiers.
CollectedPages == { page \in PageInputs : page.content = "a" }

CollectedJobs ==
    { job \in JobInputs :
        /\ job.requisition_id = None
        /\ job.job_id = None
        /\ job.location = None }

CollectorsNext ==
    \/ CreateRun
    \/ \E j \in 1..Len(runs), page \in CollectedPages :
          CollectPage(runs[j].id, page)
    \/ \E j \in 1..Len(runs), job \in CollectedJobs :
          CollectJob(runs[j].id, job)
    \/ \E j \in 1..Len(runs), ad \in AdInputs : SaveAd(runs[j].id, ad)
    \/ \E j \in 1..Len(runs), message \in EmailInputs :
          FetchEmail(runs[j].id, message)

CollectorsSpec == Init /\ [][CollectorsNext]_vars

(***************************************************************************)
(* The `run` command of cli.py and the collectors it drives.               *)
(***************************************************************************)

\* The fixed order in which cli.run runs the collectors.
CollectorOrder == << "web", "jobs", "ads", "email" >>

Collectors == { CollectorOrder[i] : i \in 1..Len(CollectorOrder) }

\* The --collectors option or the collectors the configuration enables.
EnabledInputs == { {}, {"web"}, {"web", "jobs"}, Collectors }

\* Position of a stage of cli.run in the order of the collectors; 0 before
\* the first collector.
StagePosition(stage) ==
    IF stage \in Collectors
    THEN CHOOSE i \in 1..Len(CollectorOrder) : CollectorOrder[i] = stage
    ELSE 0

\* The stage cli.run reaches after `stage`: the next collector named in
\* enabled, or the final update of the run.
NextStage(stage, enabled) ==
    LET later == { i \in 1..Len(CollectorOrder) :
                     i > StagePosition(stage) /\ CollectorOrder[i] \in enabled }
    IN IF later = {} THEN "finalize"
       ELSE CollectorOrder[CHOOSE i \in later : \A k \in later : i <= k]

\* The terminal status as it would be without the else branch of line 233:
\* run_obj.status keeps its initial value.
FinalStatusNoElse(errors, observed) ==
    IF errors > 0
    THEN IF observed > 0 THEN PARTIAL ELSE FAILED
    ELSE STARTED

\* cli.run lines 230-234: the terminal status of the run.
FinalStatus(errors, observed) ==
    IF errors > 0
    THEN IF observed > 0 THEN PARTIAL ELSE FAILED
    ELSE COMPLETED

\* results.get('errors', 0) is added to total_errors for the web and jobs
\* collectors only (cli.py:169, cli.py:187).
ReportedErrors(stage, res) ==
    IF stage \in {"web", "jobs"} THEN res.errors ELSE 0

\* The observation a collector builds for an item: web.py:123-130 and
\* 196-204, jobs.py:193-199 and 249-253, ads.py:342-350, email.py:231-248.
CollectedObservation(stage, run, entity_key, content_hash, status) ==
    [ id |-> NoneInt,
      run_id |-> run.id,
      source |-> CASE stage = "web" -> WEB
                   [] stage = "jobs" -> JOB
                   [] stage = "ads" -> AD_GOOGLE
                   [] OTHER -> EMAIL,
      entity_key |-> entity_key,
      observed_at_utc |-> now,
      content_hash |-> content_hash,
      status |-> status,
      error_message |-> IF status = "error" THEN "msg" ELSE None ]

\* What an item of a collector can come to.  web: the page is collected
\* (success or redirect), or the fetch fails before or after the hash was
\* computed and the observation is stored with status error.  jobs: the same,
\* a failed job being keyed by the hash of its URL.  ads, email: an
\* observation is built only when everything before it succeeded.
ItemObservations(stage, run) ==
    CASE stage = "web" ->
           { CollectedObservation(stage, run, "e1", "a", st) :
               st \in {"success", "redirect", "error"} }
           \cup { CollectedObservation(stage, run, "e1", None, "error") }
      [] stage = "jobs" ->
           { CollectedObservation(stage, run, "e2", "a", "success"),
             CollectedObservation(stage, run, "e2_url", "a", "error"),
             CollectedObservation(stage, run, "e2_url", None, "error") }
      [] OTHER ->
           { CollectedObservation(stage, run, "e3", "a", "success") }

\* The collector catches an exception of one item and counts it: web.py:65-67
\* and jobs.py:70-72 add one to results['errors'], ads.py:300-301 and
\* email.py:129-130 only log it.
ItemFailed(stage, res) ==
    IF stage \in {"web", "jobs"}
    THEN [ res EXCEPT !.errors = @ + 1 ]
    ELSE res

InFlight == { "started", "finalize", "summary" } \cup Collectors

\* The process ends (return or sys.exit): its locals are gone, run_obj is
\* kept as the record of the run it owned.
ProcessEnds ==
    /\ enabled_collectors' = {}
    /\ total_observations' = 0
    /\ total_errors' = 0
    /\ results' = NoResults
    /\ visited' = 0

\* cli.run lines 113-128: a new process creates its run.
CliStart(enabled) ==
    /\ pc \in { "idle", "done", "exit" }
    /\ Len(runs) < MaxProcesses
    /\ runs' = create_run(runs, now)
    /\ ret' = [ op |-> "create_run", id |-> NextId(runs), raised |-> FALSE ]
    /\ run_obj' = [ id |-> NextId(runs), started_at_utc |-> now,
                    finished_at_utc |-> NoneInt, status |-> STARTED ]
    /\ enabled_collectors' = enabled
    /\ total_observations' = 0
    /\ total_errors' = 0
    /\ results' = NoResults
    /\ visited' = 0
    /\ pc' = "started"
    /\ UNCHANGED << observations, now, utilVars >>

\* cli.run lines 144-150: no collector is enabled.
CliNoCollectors ==
    /\ pc = "started"
    /\ enabled_collectors = {}
    /\ run_obj' = [ run_obj EXCEPT !.status = COMPLETED,
                                   !.finished_at_utc = now ]
    /\ runs' = update_run(runs, run_obj')
    /\ ret' = [ op |-> "update_run", id |-> run_obj.id, raised |-> FALSE ]
    /\ pc' = "done"
    /\ ProcessEnds
    /\ UNCHANGED << observations, now, utilVars >>

\* cli.run moves on to the first enabled collector.
CliEnterCollectors ==
    /\ pc = "started"
    /\ enabled_collectors # {}
    /\ pc' = NextStage("started", enabled_collectors)
    /\ results' = NoResults
    /\ visited' = 0
    /\ ret' = [ op |-> "none" ]
    /\ UNCHANGED << runs, observations, now, run_obj, enabled_collectors,
                    total_observations, total_errors, utilVars >>

\* _collect_page, _collect_job, _save_ad, _fetch_email return an observation
\* they stored with create_observation; the collector counts it.
CollectItem(o) ==
    /\ pc \in Collectors
    /\ visited < MaxItems
    /\ Len(create_observation(observations, runs, o).table) <= MaxObs
    /\ observations' = create_observation(observations, runs, o).table
    /\ ret' = [ op |-> "create_observation",
                id |-> create_observation(observations, runs, o).id,
                raised |-> FALSE ]
    /\ results' = [ results EXCEPT !.observations = @ + 1 ]
    /\ visited' = visited + 1
    /\ UNCHANGED << runs, now, pc, run_obj, enabled_collectors,
                    total_observations, total_errors, utilVars >>

\* The item raises before an observation is stored (the browser context
\* cannot be opened, create_observation raises, the message is filtered).
CollectItemRaises ==
    /\ pc \in Collectors
    /\ visited < MaxItems
    /\ results' = ItemFailed(pc, results)
    /\ visited' = visited + 1
    /\ ret' = [ op |-> "none" ]
    /\ UNCHANGED << runs, observations, now, pc, run_obj, enabled_collectors,
                    total_observations, total_errors, utilVars >>

\* The collector has visited all its items (up to MaxItems of them):
\* collect() returns its results and cli.run adds them to its totals.
CollectorReturns ==
    /\ pc \in Collectors
    /\ total_observations' = total_observations + results.observations
    /\ total_errors' = total_errors + ReportedErrors(pc, results)
    /\ pc' = NextStage(pc, enabled_collectors)
    /\ results' = NoResults
    /\ visited' = 0
    /\ ret' = [ op |-> "none" ]
    /\ UNCHANGED << runs, observations, now, run_obj, enabled_collectors, utilVars >>

\* An exception leaving the collector as it would be without the try block
\* around the collector: the handler of line 258 ends the process.
CollectorRaises_aborts ==
    /\ pc \in Collectors
    /\ pc' = "exit"
    /\ ret' = [ op |-> "none" ]
    /\ ProcessEnds
    /\ UNCHANGED << runs, observations, now, run_obj, utilVars >>

\* An exception leaves the collector (its constructor, the browser launch,
\* _extract_job_links): cli.run logs it and counts one error.
CollectorRaises ==
    /\ pc \in Collectors
    /\ total_errors' = total_errors + 1
    /\ pc' = NextStage(pc, enabled_collectors)
    /\ results' = NoResults
    /\ visited' = 0
    /\ ret' = [ op |-> "none" ]
    /\ UNCHANGED << runs, observations, now, run_obj, enabled_collectors,
                    total_observations, utilVars >>

\* cli.run lines 229-236: the terminal update of the run.
CliFinalize ==
    /\ pc = "finalize"
    /\ run_obj' = [ run_obj EXCEPT
                      !.finished_at_utc = now,
                      !.status = FinalStatus(total_errors, total_observations) ]
    /\ runs' = update_run(runs, run_obj')
    /\ ret' = [ op |-> "update_run", id |-> run_obj.id, raised |-> FALSE ]
    /\ pc' = "summary"
    /\ UNCHANGED << observations, now, enabled_collectors,
                    total_observations, total_errors, results, visited, utilVars >>

\* cli.run lines 238-256: the summary, with get_run_stats.
CliSummary ==
    /\ pc = "summary"
    /\ ret' = [ op |-> "get_run_stats" ]
    /\ pc' = "done"
    /\ ProcessEnds
    /\ UNCHANGED << runs, observations, now, run_obj, utilVars >>

\* cli.run lines 258-261: an exception outside the collectors' try blocks
\* (update_run or get_run_stats raises, the process is interrupted) ends the
\* process; the run is not touched again.
CliFatal ==
    /\ pc \in InFlight
    /\ pc' = "exit"
    /\ ret' = [ op |-> "none" ]
    /\ ProcessEnds
    /\ UNCHANGED << runs, observations, now, run_obj, utilVars >>

CliNext ==
    \/ Tick
    \/ \E enabled \in EnabledInputs : CliStart(enabled)
    \/ CliNoCollectors
    \/ CliEnterCollectors
    \/ \E o \in ItemObservations(pc, run_obj) : CollectItem(o)
    \/ CollectItemRaises
    \/ CollectorReturns
    \/ CollectorRaises
    \/ CliFinalize
    \/ CliSummary
    \/ CliFatal

CliSpec == Init /\ [][CliNext]_vars

\* One `run` command that nothing outside the collectors interrupts: no
\* fatal error, and the statements of cli.run after a collector are reached
\* once the collector is left.
CliRunNext ==
    \/ \E enabled \in EnabledInputs : CliStart(enabled)
    \/ CliNoCollectors
    \/ CliEnterCollectors
    \/ \E o \in ItemObservations(pc, run_obj) : CollectItem(o)
    \/ CollectItemRaises
    \/ CollectorReturns
    \/ CollectorRaises
    \/ CliFinalize
    \/ CliSummary

\* The steps by which cli.run goes from one stage to the next.
CliProgress ==
    \/ CliNoCollectors
    \/ CliEnterCollectors
    \/ CollectorReturns
    \/ CollectorRaises
    \/ CliFinalize
    \/ CliSummary

CliRunSpec == Init /\ [][CliRunNext]_vars /\ WF_vars(CliProgress)

(***************************************************************************)
(* Properties.                                                             *)
(***************************************************************************)
Terminal == { COMPLETED, FAILED, PARTIAL }

\* The stored run with the given id.
StoredRun(id) == runs[CHOOSE j \in 1..Len(runs) : runs[j].id = id]

\* The stored observations of a run.
RunObservations(id) ==
    { observations[i] : i \in { k \in 1..Len(observations) :
                                  observations[k].run_id = id } }

\* Two rows or observations with the same (entity_key, content_hash, run_id).
SameTriple(a, b) ==
    /\ a.entity_key = b.entity_key
    /\ a.content_hash = b.content_hash
    /\ a.run_id = b.run_id

\* C1: no two stored observations share (entity_key, content_hash, run_id),
\* whether the content_hash is present or absent.
C1_DedupInvariant ==
    \A i, j \in 1..Len(observations) :
        i # j => ~ SameTriple(observations[i], observations[j])

\* C2: a create_observation whose (entity_key, content_hash, run_id) equals
\* that of a stored row raises nothing, leaves the table as it was and
\* returns the id of that row.
C2_Idempotent ==
    [][ ( /\ ret'.op = "create_observation"
          /\ ~ ret'.raised
          /\ \E i \in 1..Len(observations) :
                SameTriple(observations[i], ret'.arg) )
        => /\ observations' = observations
           /\ \E i \in 1..Len(observations) :
                 /\ SameTriple(observations[i], ret'.arg)
                 /\ ret'.id = observations[i].id
                 /\ \A k \in 1..(i - 1) :
                       ~ SameTriple(observations[k], ret'.arg) ]_vars

\* The stored observations of an entity that no other observation of the
\* entity is more recent than, by the time they were observed at.
MostRecent(entity_key) ==
    LET rows == { i \in 1..Len(observations) :
                    observations[i].entity_key = entity_key }
    IN { observations[i] : i \in
           { j \in rows : \A k \in rows :
               FromIsoFormat(observations[k].observed_at_utc)
                   <= FromIsoFormat(observations[j].observed_at_utc) } }

\* C3: check_for_changes returns true when no observation of the entity is
\* stored in any run, and otherwise whether the content_hash of the most
\* recent observation of the entity, over all runs, differs from current_hash.
C3_CheckForChanges ==
    ret.op = "check_for_changes" =>
        IF MostRecent(ret.entity_key) = {}
        THEN ret.changed
        ELSE \E last \in MostRecent(ret.entity_key) :
                 ret.changed = (last.content_hash # ret.current_hash)

\* C3 witness: unchanged content is recognised against an observation of an
\* earlier run that is the most recent one though not the last one inserted.
C3_Witness ==
    /\ ret.op = "check_for_changes"
    /\ ~ ret.changed
    /\ Len(runs) = 2
    /\ Len(observations) = 2
    /\ observations[1].entity_key = ret.entity_key
    /\ observations[2].entity_key = ret.entity_key
    /\ observations[1].run_id = 1
    /\ observations[1].content_hash = ret.current_hash
    /\ observations[2].content_hash # ret.current_hash
    /\ FromIsoFormat(observations[2].observed_at_utc)
           < FromIsoFormat(observations[1].observed_at_utc)

\* C4: when cli.run has written the terminal status, it is COMPLETED if no
\* error was counted, FAILED if errors were counted and no stored observation
\* of the run has status success, PARTIAL if errors were counted and one has.
C4_TerminalStatus ==
    pc = "summary" =>
        StoredRun(run_obj.id).status =
            IF total_errors = 0 THEN COMPLETED
            ELSE IF \E o \in RunObservations(run_obj.id) : o.status = "success"
                 THEN PARTIAL
                 ELSE FAILED

\* C5: a run that stored an observation with status error does not end
\* COMPLETED.
C5_ErrorObservationCounts ==
    ( /\ pc = "summary"
      /\ \E o \in RunObservations(run_obj.id) : o.status = "error" )
    => StoredRun(run_obj.id).status \in { PARTIAL, FAILED }

\* C6: a stored run changes status at most once, from STARTED to a terminal
\* status, never leaves a terminal status, and its finished_at is written
\* once, in the update that writes the terminal status.
C6_RunLifecycle ==
    [][ /\ Len(runs') >= Len(runs)
        /\ \A j \in 1..Len(runs) :
              /\ runs'[j].id = runs[j].id
              /\ runs[j].status \in Terminal => runs'[j] = runs[j]
              /\ runs'[j].status # runs[j].status =>
                    /\ runs[j].status = STARTED
                    /\ runs'[j].status \in Terminal
                    /\ runs[j].finished_at_utc = NullText
                    /\ runs'[j].finished_at_utc # NullText
              /\ runs'[j].finished_at_utc # runs[j].finished_at_utc =>
                    /\ runs[j].finished_at_utc = NullText
                    /\ runs[j].status = STARTED
                    /\ runs'[j].status \in Terminal ]_vars

\* C6 witness: the process fails after the final update of its run.
C6_Witness ==
    /\ pc = "exit"
    /\ run_obj.id # NoneInt
    /\ StoredRun(run_obj.id).status \in Terminal
    /\ StoredRun(run_obj.id).finished_at_utc # NullText

\* C7: a stored run has no finished_at exactly when its status is STARTED,
\* and the run of a process that ended on a fatal error before it set
\* finished_at is stored as STARTED without finished_at.
C7_InterruptedRun ==
    /\ \A j \in 1..Len(runs) :
          (runs[j].finished_at_utc = NullText) <=> (runs[j].status = STARTED)
    /\ ( /\ pc = "exit"
         /\ run_obj.id # NoneInt
         /\ run_obj.finished_at_utc = NoneInt )
       => /\ StoredRun(run_obj.id).status = STARTED
          /\ StoredRun(run_obj.id).finished_at_utc = NullText

\* C7 witness: the process is interrupted after it stored an observation.
C7_Witness ==
    /\ pc = "exit"
    /\ run_obj.id # NoneInt
    /\ run_obj.finished_at_utc = NoneInt
    /\ RunObservations(run_obj.id) # {}
    /\ StoredRun(run_obj.id).status = STARTED

\* C8: a create_observation that returns normally leaves the id of a stored
\* row in the observation.
C8_NoSilentDrop ==
    ( ret.op = "create_observation" /\ ~ ret.raised )
    => /\ ret.id # NoneInt
       /\ \E i \in 1..Len(observations) : observations[i].id = ret.id

\* C9: the run_id of every stored observation is the id of a stored run.
C9_ReferentialIntegrity ==
    \A i \in 1..Len(observations) :
        \E j \in 1..Len(runs) : runs[j].id = observations[i].run_id

\* C10: no step changes or deletes a stored observation; the table only
\* grows.
C10_ObservationsImmutable ==
    [][ /\ Len(observations') >= Len(observations)
        /\ \A i \in 1..Len(observations) :
              observations'[i] = observations[i] ]_vars

\* C10 witness: a duplicate create_observation was absorbed while two rows
\* are stored, and returned the id of the first.
C10_Witness ==
    /\ ret.op = "create_observation"
    /\ ~ ret.raised
    /\ Len(observations) = 2
    /\ ret.id = observations[1].id
    /\ Len(runs) >= 1
    /\ runs[1].status = COMPLETED

\* The positions of the stored observations get_last_observation looks at.
Matching(entity_key, source) ==
    { i \in 1..Len(observations) :
        /\ observations[i].entity_key = entity_key
        /\ (source = None \/ observations[i].source = source) }

\* C11: get_last_observation returns absent when no stored observation has
\* the entity_key (and the source, when one is given), and otherwise the
\* observation with the greatest observed_at among them, over all runs, the
\* one inserted last when several share the greatest observed_at.
C11_GetLastObservation ==
    ret.op = "get_last_observation" =>
        LET match == Matching(ret.entity_key, ret.source)
        IN IF match = {}
           THEN ret.result = << >>
           ELSE \E j \in match :
                  /\ ret.result = << RowToObservation(observations[j]) >>
                  /\ \A k \in match :
                        \/ FromIsoFormat(observations[k].observed_at_utc)
                              < FromIsoFormat(observations[j].observed_at_utc)
                        \/ /\ observations[k].observed_at_utc
                                = observations[j].observed_at_utc
                           /\ k <= j

\* C12: get_run_observations returns exactly the stored observations of the
\* run, each once, in non-decreasing order of the time they were observed at,
\* whatever the order they were inserted in.
C12_GetRunObservations ==
    ret.op = "get_run_observations" =>
        LET result == ret.result
            stored == { k \in 1..Len(observations) :
                          observations[k].run_id = ret.run_id }
        IN /\ Len(result) = Cardinality(stored)
           /\ \A k \in stored : \E a \in 1..Len(result) :
                 result[a] = RowToObservation(observations[k])
           /\ \A a, b \in 1..Len(result) : a # b => result[a].id # result[b].id
           /\ \A a \in 1..(Len(result) - 1) :
                 result[a].observed_at_utc <= result[a + 1].observed_at_utc

\* C12 witness: the run has two observations, the one inserted first was
\* observed later, and the list starts with the one inserted second.
C12_Witness ==
    /\ ret.op = "get_run_observations"
    /\ Len(ret.result) = 2
    /\ Len(observations) = 2
    /\ FromIsoFormat(observations[2].observed_at_utc)
           < FromIsoFormat(observations[1].observed_at_utc)
    /\ ret.result[1].id = observations[2].id
    /\ ret.result[2].id = observations[1].id

\* The four counts of a run, counted over the stored observations of the run.
RunCounts(id) ==
    [ total_observations |-> Cardinality(RunObservations(id)),
      successful |->
          Cardinality({ o \in RunObservations(id) : o.status = "success" }),
      errors |->
          Cardinality({ o \in RunObservations(id) : o.status = "error" }),
      sources |-> Cardinality({ o.source : o \in RunObservations(id) }) ]

\* C13: get_run_stats reports the number of stored observations of the run,
\* how many of them have status success, how many have status error and how
\* many distinct sources they have, observations of other runs not counted;
\* and a create_observation that dedup absorbs changes the counts of no run.
C13_GetRunStats ==
    /\ [] ( ret.op = "get_run_stats" => ret.stats = RunCounts(ret.run_id) )
    /\ [][ ( /\ ret'.op = "create_observation"
              /\ \E i \in 1..Len(observations) :
                    observations[i].id = ret'.id )
            => \A r \in RunIds :
                  get_run_stats(observations', r)
                      = get_run_stats(observations, r) ]_vars

\* C13 witness: the second run has one successful observation, the first run
\* has one too, and the counts of the second run are 1, 1, 0, 1.
C13_Witness ==
    /\ ret.op = "get_run_stats"
    /\ ret.run_id = 2
    /\ Len(observations) = 2
    /\ observations[1].run_id = 1
    /\ observations[2].run_id = 2
    /\ ret.stats = [ total_observations |-> 1, successful |-> 1,
                     errors |-> 0, sources |-> 1 ]

\* C14: a create_run that returns appends one run with status STARTED, the
\* current time as started_at, no finished_at and an id greater than the id
\* of every run stored before, and changes no other run and no observation;
\* and no step changes the id of a stored run.
C14_CreateRun ==
    [][ /\ Len(runs') >= Len(runs)
        /\ \A j \in 1..Len(runs) : runs'[j].id = runs[j].id
        /\ ( ret'.op = "create_run" /\ ~ ret'.raised ) =>
              /\ Len(runs') = Len(runs) + 1
              /\ runs'[Len(runs')].status = STARTED
              /\ runs'[Len(runs')].started_at_utc # NullText
              /\ FromIsoFormat(runs'[Len(runs')].started_at_utc) = now
              /\ runs'[Len(runs')].finished_at_utc = NullText
              /\ runs'[Len(runs')].id = ret'.id
              /\ \A j \in 1..Len(runs) :
                    /\ runs[j].id < runs'[Len(runs')].id
                    /\ runs'[j] = runs[j]
              /\ observations' = observations ]_vars

\* C14 witness: a second run is created after the first one was finished and
\* an observation was stored.
C14_Witness ==
    /\ ret.op = "create_run"
    /\ ~ ret.raised
    /\ Len(runs) = 2
    /\ runs[1].status = COMPLETED
    /\ runs[2].status = STARTED
    /\ runs[2].id = ret.id
    /\ Len(observations) >= 1

\* C15: every stored run that has a finished_at has finished_at >= started_at,
\* the clock never going backwards.
C15_FinishedAfterStarted ==
    \A j \in 1..Len(runs) :
        runs[j].finished_at_utc # NullText =>
            FromIsoFormat(runs[j].finished_at_utc)
                >= FromIsoFormat(runs[j].started_at_utc)

\* C15 witness: the run command wrote the terminal status of a run that
\* collected something, at a later time than the run started at.
C15_Witness ==
    /\ pc = "summary"
    /\ RunObservations(run_obj.id) # {}
    /\ StoredRun(run_obj.id).finished_at_utc # NullText
    /\ FromIsoFormat(StoredRun(run_obj.id).finished_at_utc)
           > FromIsoFormat(StoredRun(run_obj.id).started_at_utc)

WriteOps == { "create_run", "update_run", "create_observation" }

\* C16: when a storage error occurs inside create_run, update_run or
\* create_observation, the stored runs and observations are what they were
\* before the call, the error is raised to the caller and the connection is
\* closed.
C16_AtomicWrites ==
    [][ ( ret'.op \in WriteOps /\ "point" \in DOMAIN ret' ) =>
            /\ runs' = runs
            /\ observations' = observations
            /\ ret'.raised
            /\ ret'.closed ]_vars

\* C16 witness: the commit of a write failed on a ledger that holds a run and
\* an observation.
C16_Witness ==
    /\ ret.op \in WriteOps
    /\ "point" \in DOMAIN ret
    /\ ret.point = "commit"
    /\ ret.raised
    /\ Len(runs) = 1
    /\ Len(observations) = 1

\* C17: with max_attempts >= 1, func is invoked at most max_attempts times;
\* an invocation that returns is the last event and its value is returned; a
\* sleep comes only right after a failed invocation and right before the
\* next one, never after the last; and when max_attempts invocations have
\* failed, retry_with_backoff has raised the failure of the last of them.
C17_RetryAttempts ==
    max_attempts >= 1 =>
        /\ Cardinality(Calls) <= max_attempts
        /\ \A i \in Calls :
              trace[i].outcome = "returned" =>
                  /\ i = Len(trace)
                  /\ retry_pc = "done"
                  /\ outcome = [ kind |-> "returned",
                                 call |-> Cardinality(Calls) ]
        /\ \A i \in 1..Len(trace) :
              trace[i].ev = "sleep" =>
                  /\ i > 1
                  /\ trace[i - 1] = Call("raised")
                  /\ i < Len(trace) => trace[i + 1].ev = "call"
                  /\ i = Len(trace) =>
                        /\ retry_pc = "loop"
                        /\ Cardinality(Calls) < max_attempts
        /\ ( /\ Cardinality(Calls) = max_attempts
             /\ \A i \in Calls : trace[i].outcome = "raised" )
           => /\ retry_pc = "done"
              /\ outcome = [ kind |-> "raised", call |-> max_attempts ]
        /\ retry_pc = "done" => outcome.kind \in { "returned", "raised" }

\* C17 witness: three attempts were allowed and all three failed, with two
\* sleeps in between.
C17_Witness ==
    /\ max_attempts = 3
    /\ retry_pc = "done"
    /\ outcome = [ kind |-> "raised", call |-> 3 ]
    /\ Len(trace) = 5
    /\ trace[2].ev = "sleep"
    /\ trace[4].ev = "sleep"

\* The delays of the sleeps, in order.
Sleeps == SelectSeq(trace, LAMBDA e : e.ev = "sleep")

\* C18: the first sleep lasts initial_backoff, each later sleep lasts the
\* delay before it multiplied by exponential_base and capped at max_backoff,
\* and no sleep lasts longer than max_backoff.
C18_BackoffDelays ==
    /\ Len(Sleeps) >= 1 => Sleeps[1].delay = initial_backoff
    /\ \A k \in 2..Len(Sleeps) :
          Sleeps[k].delay
              = Min(Sleeps[k - 1].delay * exponential_base, max_backoff)
    /\ \A k \in 1..Len(Sleeps) : Sleeps[k].delay <= max_backoff

\* C19: when normalize_html raised on the content of a page that was fetched,
\* and nothing else went wrong, the observation that is stored has a status
\* other than error and carries a content_hash.
C19_NormalizationFallback ==
    ( /\ ret.op = "_collect_page"
      /\ ret.page.goto # "timeout"
      /\ ret.page.normalize = "raises"
      /\ ret.page.artifacts = "ok" )
    => /\ ret.observation.status # "error"
       /\ ret.observation.content_hash # None
       /\ \E i \in 1..Len(observations) :
             /\ observations[i].id = ret.observation.id
             /\ observations[i].status # "error"
             /\ observations[i].content_hash # None

\* C20: normalize_html of a document with a tracking parameter added to the
\* URLs of its link-bearing attributes equals normalize_html of the document
\* without it.
C20_TrackingNoise ==
    ret.op = "normalize_html" => ret.normalized_tracked = ret.normalized

\* C21: clean_url removes the parameters whose lowercased name is a tracking
\* name and the fragment, and keeps the text before the query and every
\* other parameter with its value, in the order of the input, parameters
\* with an empty value and repeated names included.
C21_CleanUrl ==
    ret.op = "clean_url" =>
        /\ ret.cleaned.path = given_url.path
        /\ ret.cleaned.fragment = ""
        /\ ret.cleaned.query =
              SelectSeq(given_url.query, LAMBDA p : Lower(p.k) \notin tracking_params)

\* Parts none of which is empty or holds the separator.
PlainParts(parts) ==
    \A i \in 1..Len(parts) : parts[i] # "" /\ ~ HasSeparator(parts[i])

\* C22: make_entity_key gives the same key for the same parts, and two
\* sequences of non-empty parts without "|" that differ in a part or in the
\* order of the parts get different keys (the hash being injective).
C22_EntityKey ==
    ret.op = "make_entity_key" =>
        \A other \in PartsInputs :
            /\ other = given_parts => make_entity_key(other) = ret.key
            /\ (PlainParts(given_parts) /\ PlainParts(other)
                    /\ other # given_parts)
                  => make_entity_key(other) # ret.key

\* The key of parts "a", "b" has been computed: "b", "a" and "ab" are other
\* inputs of the same characters.
C22_Witness ==
    /\ ret.op = "make_entity_key"
    /\ given_parts = << "a", "b" >>

\* The same job: the same URL and the same identifiers on the page.
SameJob(a, b) == [ a EXCEPT !.fails = "no" ] = [ b EXCEPT !.fails = "no" ]

\* C23: the observations that two runs store for the same job URL with the
\* same identifiers on its page have the same entity_key, whether the
\* collection succeeds or ends with status error.
C23_StableJobKey ==
    [][ ( /\ ret.op = "_collect_job"
          /\ ret'.op = "_collect_job"
          /\ SameJob(ret.job, ret'.job)
          /\ ret.observation.run_id # ret'.observation.run_id )
        => ret'.observation.entity_key = ret.observation.entity_key ]_vars

\* The key derived from title, location and URL.
DerivedKey(job) ==
    make_entity_key(<< job.title,
                       IF job.location = None THEN "" ELSE job.location,
                       job.url >>)

\* C28: the key of a collected job is "req_" and the requisition id when
\* the page has one, otherwise "job_" and the platform job id when the page
\* has one, and the hash derived from title, location and URL only when it
\* has neither (an empty identifier counts as none).
C28_JobKeyPrecedence ==
    (ret.op = "_collect_job" /\ ret.observation.status = "success") =>
        LET job == ret.job
            key == ret.observation.entity_key
            has_req == job.requisition_id \notin { None, "" }
            has_id == job.job_id \notin { None, "" }
        IN /\ has_req => key = "req_" \o job.requisition_id
           /\ (~ has_req /\ has_id) => key = "job_" \o job.job_id
           /\ (key = DerivedKey(job)) <=> (~ has_req /\ ~ has_id)

\* A job whose page has both identifiers has been collected.
C28_Witness ==
    /\ ret.op = "_collect_job"
    /\ ret.observation.status = "success"
    /\ ret.job.requisition_id = "7"
    /\ ret.job.job_id = "4"
    /\ ret.observation.entity_key = "req_7"

\* C24: when two writers have called create_observation with the same
\* (entity_key, content_hash, run_id) and both calls are over, exactly one
\* row with that triple is stored, neither call has raised, and both have
\* returned the id of that row.
C24_ConcurrentWriters ==
    (\A w \in Writers : writers[w].pc = "done") =>
        LET rows == { i \in 1..Len(observations) :
                        SameTriple(observations[i], both_write) }
        IN /\ Cardinality(rows) = 1
           /\ \A w \in Writers :
                 /\ ~ writers[w].raised
                 /\ \A i \in rows : writers[w].id = observations[i].id

\* The four queries of the Storage API.
Queries4 ==
    { "check_for_changes", "get_last_observation", "get_run_observations",
      "get_run_stats" }

\* C25: check_for_changes, get_last_observation, get_run_observations and
\* get_run_stats leave every stored run and every stored observation as
\* they were, for every argument, also one that matches nothing.
C25_QueriesReadOnly ==
    [][ ret'.op \in Queries4 =>
          (runs' = runs /\ observations' = observations) ]_vars

\* Each kind of query has been made on a database with stored runs and
\* observations; here check_for_changes for an entity with no observation.
C25_Witness ==
    /\ ret.op = "check_for_changes"
    /\ ret.changed
    /\ runs # << >>
    /\ observations # << >>
    /\ \A i \in 1..Len(observations) :
          observations[i].entity_key # ret.entity_key

\* C29: when the most recent stored observation of an entity is a failed
\* one with no content_hash, check_for_changes returns true for every hash,
\* also for the content_hash of the last successful observation.
C29_ChangedAfterFailure ==
    ( /\ ret.op = "check_for_changes"
      /\ ret.current_hash # None
      /\ MostRecent(ret.entity_key) # {}
      /\ \A last \in MostRecent(ret.entity_key) :
            last.status = "error" /\ last.content_hash = None )
    => ret.changed

\* A successful observation with hash h is followed by a later failed one,
\* and check_for_changes has been asked about h.
C29_Witness ==
    /\ ret.op = "check_for_changes"
    /\ ret.changed
    /\ Len(observations) = 2
    /\ observations[1].entity_key = ret.entity_key
    /\ observations[2].entity_key = ret.entity_key
    /\ observations[1].status = "success"
    /\ observations[1].content_hash = ret.current_hash
    /\ observations[2].status = "error"
    /\ observations[2].content_hash = None
    /\ FromIsoFormat(observations[1].observed_at_utc)
           < FromIsoFormat(observations[2].observed_at_utc)

C26_StatusAndMessage ==
    \A i \in 1..Len(observations) :
        /\ observations[i].status \in { "success", "error", "redirect" }
        /\ (observations[i].error_message # None)
              <=> (observations[i].status = "error")

\* A page that redirected and then failed while its artifacts were saved
\* has been stored.
C26_Witness ==
    /\ ret.op = "_collect_page"
    /\ ret.page.goto = "redirect"
    /\ ret.page.artifacts = "raises"
    /\ \E i \in 1..Len(observations) :
          /\ observations[i].id = ret.observation.id
          /\ observations[i].status = "error"
          /\ observations[i].error_message # None
          /\ observations[i].content_hash # None

\* The enabled collectors that come after the stage in the fixed order.
LaterEnabled(stage) ==
    { c \in enabled_collectors : StagePosition(c) > StagePosition(stage) }

\* C27: when an enabled collector raises out of collect(), one error is
\* counted, the process goes on to the next enabled collector of the order
\* web, jobs, ads, email (to the final update when there is none), and the
\* run of a process that is in a collector reaches its terminal update_run
\* with finished_at set.
C27_CollectorFailure ==
    /\ [][ CollectorRaises =>
              /\ total_errors' = total_errors + 1
              /\ total_observations' = total_observations
              /\ runs' = runs
              /\ enabled_collectors' = enabled_collectors
              /\ IF LaterEnabled(pc) = {}
                 THEN pc' = "finalize"
                 ELSE /\ pc' \in LaterEnabled(pc)
                      /\ \A c \in LaterEnabled(pc) :
                            StagePosition(pc') <= StagePosition(c) ]_vars
    /\ [](pc \in Collectors =>
            <>( /\ pc = "summary"
                /\ ret.op = "update_run"
                /\ StoredRun(run_obj.id).status \in Terminal
                /\ StoredRun(run_obj.id).finished_at_utc # NullText ))

\* web and jobs have each collected their item, the ads collector has
\* raised, and the email collector is running.
C27_Witness ==
    /\ pc = "email"
    /\ enabled_collectors = Collectors
    /\ total_observations = 2
    /\ total_errors = 1

====
